---------------------------- MODULE Spec2Model ----------------------------
(***************************************************************************)
(* Varetelling: a Tk inventory application (src/main.py).                  *)
(*                                                                         *)
(* InventoryManager keeps a list of InventoryItem objects, a history of    *)
(* snapshots for undo and a CSV file that is rewritten on every mutation.  *)
(* InventoryGUI drives it from button callbacks: add, edit, delete,        *)
(* import of a CSV of amount changes, undo.                                *)
(*                                                                         *)
(* Python objects are modelled by reference: heap is the sequence of all   *)
(* InventoryItem objects ever constructed, and items / history hold        *)
(* indices into it, so that sharing between the live list and a snapshot   *)
(* is something the model can express.                                     *)
(***************************************************************************)
EXTENDS Integers, Sequences, FiniteSets, TLC

(***************************************************************************)
(* Bounds of the exploration.                                              *)
(***************************************************************************)
\* number of GUI callbacks (or direct manager calls) started in one run
MaxOps == 3
\* number of data rows of an imported CSV file
MaxBatch == 2

(***************************************************************************)
(* Text.  EAN, name and popular are opaque strings; the empty string is    *)
(* "".  Amount texts are sequences of one-character strings so that int()  *)
(* and str() can be computed.  None is Python's None where a string is     *)
(* expected (csv.DictReader's restval for a short row, askstring's result  *)
(* on Cancel); no text of the model equals it.                             *)
(***************************************************************************)
None == "<None>"

DigitChars == <<"0", "1", "2", "3", "4", "5", "6", "7", "8", "9">>

IsDigit(c) == \E d \in 1..10 : DigitChars[d] = c

DigitVal(c) == (CHOOSE d \in 1..10 : DigitChars[d] = c) - 1

RECURSIVE StripLeft(_)
StripLeft(t) == IF t # <<>> /\ Head(t) = " " THEN StripLeft(Tail(t)) ELSE t

RECURSIVE StripRight(_)
StripRight(t) ==
    IF t # <<>> /\ t[Len(t)] = " " THEN StripRight(SubSeq(t, 1, Len(t) - 1)) ELSE t

RECURSIVE DigitsVal(_, _)
DigitsVal(t, acc) ==
    IF t = <<>> THEN acc ELSE DigitsVal(Tail(t), acc * 10 + DigitVal(Head(t)))

\* int(text) for a str argument: surrounding blanks are stripped, one
\* optional sign, then one or more decimal digits; anything else raises
\* ValueError (ok = FALSE).
ParseInt(text) ==
    LET s == StripRight(StripLeft(text))
        signed == s # <<>> /\ Head(s) \in {"+", "-"}
        digits == IF signed THEN Tail(s) ELSE s
        good == digits # <<>> /\ \A i \in 1..Len(digits) : IsDigit(digits[i])
    IN  IF ~good THEN [ok |-> FALSE, val |-> 0]
        ELSE [ok |-> TRUE,
              val |-> IF signed /\ Head(s) = "-" THEN 0 - DigitsVal(digits, 0)
                                                ELSE DigitsVal(digits, 0)]

RECURSIVE NatToText(_)
NatToText(n) ==
    IF n < 10 THEN <<DigitChars[n + 1]>>
    ELSE Append(NatToText(n \div 10), DigitChars[(n % 10) + 1])

\* str(n) for an int, as csv.DictWriter writes a non-string field
IntToText(n) == IF n < 0 THEN <<"-">> \o NatToText(0 - n) ELSE NatToText(n)

\* csv.writer writes None as the empty field
CsvField(v) == IF v = None THEN "" ELSE v

(***************************************************************************)
(* InventoryItem and the manager's data.                                   *)
(***************************************************************************)
\* InventoryItem.__init__ called with an int amount: int(amount) = amount
InventoryItem(ean, amount, name, popular) ==
    [ean |-> ean, amount |-> amount, name |-> name, popular |-> popular]

\* Python list indexing: a negative index counts from the end
PyIndex(len, index) == IF index < 0 THEN index + len ELSE index

\* whether list[index] exists; otherwise Python raises IndexError
PyIndexOk(len, index) == PyIndex(len, index) >= 0 /\ PyIndex(len, index) < len

\* the collection a list of references denotes, field by field
Deref(h, refs) == [i \in 1..Len(refs) |-> h[refs[i]]]

\* the rows csv.DictWriter writes for a list of references
WriteRows(h, refs) ==
    [i \in 1..Len(refs) |->
        [ean |-> CsvField(h[refs[i]].ean),
         amount |-> IntToText(h[refs[i]].amount),
         name |-> CsvField(h[refs[i]].name),
         popular |-> CsvField(h[refs[i]].popular)]]

\* the items InventoryManager.load_inventory builds from the rows of the file
LoadItems(rows) ==
    [i \in 1..Len(rows) |->
        InventoryItem(rows[i].ean, ParseInt(rows[i].amount).val,
                      rows[i].name, rows[i].popular)]

\* 0-based position of the first item with the given EAN, -1 for None:
\* next((i for i, item in enumerate(items) if item.ean == ean), None)
FirstIndex(h, refs, ean) ==
    IF \E i \in 1..Len(refs) : h[refs[i]].ean = ean
    THEN (CHOOSE i \in 1..Len(refs) :
              /\ h[refs[i]].ean = ean
              /\ \A j \in 1..(i - 1) : h[refs[j]].ean # ean) - 1
    ELSE -1

(***************************************************************************)
(* InventoryManager's methods as functions of the manager's state          *)
(*   m = [heap, items, history, file, saves, raised]                       *)
(* saves counts the calls of save_inventory, raised names the exception    *)
(* a call ended with ("" for a normal return).                             *)
(***************************************************************************)
save_inventory(m) ==
    [m EXCEPT !.file = WriteRows(m.heap, m.items), !.saves = @ + 1]

\* save_state as it would be with a shallow copy, list(self.items): the
\* snapshot shares the item objects with the live list
save_state_shallow(m) ==
    [m EXCEPT !.history = Append(m.history, m.items)]

\* a deep copy: one new InventoryItem per item, in a new list
save_state(m) ==
    LET n == Len(m.heap)
        k == Len(m.items)
    IN  [m EXCEPT !.heap = m.heap \o
                      [i \in 1..k |->
                          InventoryItem(m.heap[m.items[i]].ean,
                                        m.heap[m.items[i]].amount,
                                        m.heap[m.items[i]].name,
                                        m.heap[m.items[i]].popular)],
                  !.history = Append(m.history, [i \in 1..k |-> n + i])]

\* undo as it would be if it took the oldest snapshot, self.history.pop(0)
undo_oldest(m) ==
    IF m.history = <<>> THEN m
    ELSE save_inventory(
             [m EXCEPT !.items = m.history[1], !.history = Tail(m.history)])

\* undo as it would be if an empty history restored an empty collection
undo_resets(m) ==
    IF m.history = <<>> THEN save_inventory([m EXCEPT !.items = <<>>])
    ELSE save_inventory(
             [m EXCEPT !.items = m.history[Len(m.history)],
                       !.history = SubSeq(m.history, 1, Len(m.history) - 1)])

undo(m) ==
    IF m.history = <<>> THEN m
    ELSE save_inventory(
             [m EXCEPT !.items = m.history[Len(m.history)],
                       !.history = SubSeq(m.history, 1, Len(m.history) - 1)])

\* the caller's new InventoryItem(...), then add_item(item)
add_item(m, item) ==
    save_inventory(
        [m EXCEPT !.heap = Append(m.heap, item),
                  !.items = Append(m.items, Len(m.heap) + 1)])

\* the caller's new InventoryItem(...), then update_item(index, item)
update_item(m, index, item) ==
    IF ~PyIndexOk(Len(m.items), index)
    THEN [m EXCEPT !.raised = "IndexError"]
    ELSE save_inventory(
             [m EXCEPT !.heap = Append(m.heap, item),
                       !.items[PyIndex(Len(m.items), index) + 1] = Len(m.heap) + 1])

\* delete_item as it would be if it removed the last item, self.items.pop()
delete_item_last(m, index) ==
    IF ~PyIndexOk(Len(m.items), index)
    THEN [m EXCEPT !.raised = "IndexError"]
    ELSE save_inventory(
             [m EXCEPT !.items = SubSeq(m.items, 1, Len(m.items) - 1)])

delete_item(m, index) ==
    IF ~PyIndexOk(Len(m.items), index)
    THEN [m EXCEPT !.raised = "IndexError"]
    ELSE LET p == PyIndex(Len(m.items), index) + 1
         IN  save_inventory(
                 [m EXCEPT !.items = SubSeq(m.items, 1, p - 1) \o
                                     SubSeq(m.items, p + 1, Len(m.items))])


(***************************************************************************)
(* State.                                                                  *)
(***************************************************************************)
VARIABLES
    heap,       \* every InventoryItem object constructed so far
    items,      \* manager.items: references into heap
    history,    \* manager.history: a stack of lists of references
    file,       \* the data rows of the inventory CSV file
    tree,       \* number of rows the Treeview shows (iids 0..tree-1)
    forms,      \* the open item windows, each with the index it was opened for
    pc,         \* "idle", or "import_rows" inside import_csv's loop
    rowRead,    \* the row the csv reader of import_csv yielded last (<<>>: none)
    nrows,      \* the number of rows it has yielded
    warnings,   \* the warnings import_csv has shown for the current file
    saveCalls,  \* calls of save_inventory made by the current callback
    ops,        \* callbacks started so far
    last,       \* the callback that ran last, what it was given and how it ended
    pushed,     \* for each snapshot of history: val, the collection as save_state
                \* saw it, and muts, the mutations made since while it was on top
    mutLog      \* empty, or one entry for the most recent mutation if no undo
                \* has restored a snapshot since: val, the collection as it was
                \* before the mutation, and at, the number of the import that
                \* made it (0 for a mutation made otherwise)

vars == <<heap, items, history, file, tree, forms, pc, rowRead, nrows, warnings,
          saveCalls, ops, last, pushed, mutLog>>

NoSel == -1

\* the manager as the callback that starts now finds it
Mgr == [heap |-> heap, items |-> items, history |-> history, file |-> file,
        saves |-> 0, raised |-> ""]

\* pushed after a step that leaves the history as hist and made the mutation
\* mut ("" for none)
Track(hist, mut) ==
    LET base == IF Len(hist) > Len(history)
                THEN Append(pushed, [val |-> Deref(heap, items), muts |-> <<>>])
                ELSE IF Len(hist) < Len(history)
                     THEN SubSeq(pushed, 1, Len(pushed) - 1)
                     ELSE pushed
    IN  IF mut = "" \/ base = <<>> THEN base
        ELSE [base EXCEPT ![Len(base)].muts = Append(@, mut)]

\* mutLog after a step that leaves the history as hist and made the
\* mutation mut: a successful undo empties it, the first mutation of a
\* callback records the collection it found (the rows of one import_csv
\* are one callback)
Logged(hist, mut) ==
    LET at == IF pc = "idle" THEN 0 ELSE ops
    IN  IF Len(hist) < Len(history) THEN <<>>
        ELSE IF mut = "" THEN mutLog
        ELSE IF at # 0 /\ mutLog # <<>> /\ mutLog[1].at = at THEN mutLog
        ELSE <<[val |-> Deref(heap, items), at |-> at]>>

\* the manager as a callback leaves it, having made the mutation mut
Install(m, mut) ==
    /\ heap' = m.heap
    /\ items' = m.items
    /\ history' = m.history
    /\ file' = m.file
    /\ saveCalls' = m.saves
    /\ pushed' = Track(m.history, mut)
    /\ mutLog' = Logged(m.history, mut)

\* the record of a callback: its name, how it ended, the row or index and the
\* code it was given, and what else a property needs to know of its input
Done(op, res, sel, ean) ==
    [op |-> op, res |-> res, sel |-> sel, ean |-> ean, info |-> <<>>]

(***************************************************************************)
(* Inputs.                                                                 *)
(***************************************************************************)
\* the inventory files the program may be started on: no file yet (load
\* creates it with the header only), or a well-formed file
InitFiles ==
    { <<>>,
      <<[ean |-> "a", amount |-> <<"1">>, name |-> "w", popular |-> "Y"],
        [ean |-> "a", amount |-> <<"3">>, name |-> "v", popular |-> "N"]>> }

\* what the user types into an item window: complete and valid entries, and
\* one entry for each way save_item refuses
FormInputs ==
    { <<"a", <<"1">>, "w", "Y">>,
      <<"b", <<"-", "1">>, "w", "Y">>,
      <<"", <<"1">>, "w", "Y">>,
      <<"a", <<>>, "w", "Y">>,
      <<"a", <<"1">>, "", "Y">>,
      <<"a", <<"1">>, "w", "">>,
      <<"a", <<"x">>, "w", "Y">> }

\* what the user answers to askstring: Cancel, or a code
TypedEans == {None, "a", "b"}

\* header rows of files offered to import_csv
GoodHeader == <<"ean", "amount", "name">>

Headers == {GoodHeader, <<"id", "qty", "label">>, <<"ean", "name", "amount">>}

\* data rows of files offered to import_csv, as csv.reader splits them; the
\* reader yields them one at a time, at most MaxBatch of them
Rows ==
    { <<"a", <<"1">>, "v">>,
      <<"a", <<"-", "2">>, "v">>,
      <<"b", <<"0">>, "">>,
      <<"b", <<"x">>, "v">>,
      <<"b">> }

\* csv.DictReader: row[key] of a row shorter than the header is None
HasField(row, k) == k <= Len(row)


(***************************************************************************)
(* Construction: InventoryManager.__init__ loads the file; InventoryGUI.   *)
(* __init__ fills the Treeview.                                            *)
(***************************************************************************)
Init ==
    \E f \in InitFiles :
        /\ file = f
        /\ heap = LoadItems(f)
        /\ items = [i \in 1..Len(f) |-> i]
        /\ history = <<>>
        /\ tree = Len(f)
        /\ forms = <<>>
        /\ pc = "idle"
        /\ rowRead = <<>>
        /\ nrows = 0
        /\ warnings = <<>>
        /\ saveCalls = 0
        /\ ops = 0
        /\ last = Done("init", "loaded", NoSel, None)
        /\ pushed = <<>>
        /\ mutLog = <<>>

\* a callback may start: the event loop is idle and the run is not over
Ready == pc = "idle" /\ ops < MaxOps

\* InventoryGUI.load_items: the Treeview gets one row per item
load_items(m) == Len(m.items)

\* InventoryGUI.item_window(index): reads items[index] to fill the entries
\* and opens the window; the window keeps index, item is the object read
\* (0 for the empty form of a new item)
item_window(isNew, index) ==
    Append(forms, [isNew |-> isNew, index |-> index,
                   item |-> IF isNew THEN 0 ELSE items[index + 1]])

RemoveAt(s, k) == SubSeq(s, 1, k - 1) \o SubSeq(s, k + 1, Len(s))

(***************************************************************************)
(* InventoryGUI.add_item: the "Legg til linje" button.                     *)
(***************************************************************************)
AddClick ==
    /\ Ready
    /\ Install(save_state(Mgr), "")
    /\ forms' = item_window(TRUE, 0)
    /\ ops' = ops + 1
    /\ last' = Done("add_click", "form_opened", NoSel, None)
    /\ UNCHANGED <<tree, pc, rowRead, nrows, warnings>>

(***************************************************************************)
(* InventoryGUI.edit_item: the "Rediger linje" button, with the selected   *)
(* row sel (NoSel: none) and the code typed into the dialog otherwise.     *)
(***************************************************************************)
EditClick(sel, typed) ==
    /\ Ready
    /\ ops' = ops + 1
    /\ UNCHANGED <<tree, pc, rowRead, nrows, warnings>>
    /\ IF sel # NoSel
       THEN IF ~PyIndexOk(Len(items), sel)
            THEN /\ Install(Mgr, "")
                 /\ forms' = forms
                 /\ last' = Done("edit_click", "IndexError", sel, None)
            ELSE /\ Install(save_state(Mgr), "")
                 /\ forms' = item_window(FALSE, sel)
                 /\ last' = Done("edit_click", "form_opened", sel, None)
       ELSE LET index == FirstIndex(heap, items, typed)
            IN  /\ Install(Mgr, "")
                /\ IF index = -1
                   THEN /\ forms' = forms
                        /\ last' = Done("edit_click", "not_found", sel, typed)
                   ELSE /\ forms' = item_window(FALSE, index)
                        /\ last' = Done("edit_click", "form_opened", sel, typed)

(***************************************************************************)
(* InventoryGUI.delete_item: the "Slett linje" button, with the selected   *)
(* row, the code typed otherwise, and the answer to the askyesno prompt.   *)
(* Without a selection the handler returns after the lookup whether or not *)
(* the code was found (line 193).                                          *)
(***************************************************************************)
DeleteClick(sel, typed, confirm) ==
    /\ Ready
    /\ ops' = ops + 1
    /\ UNCHANGED <<forms, pc, rowRead, nrows, warnings>>
    /\ IF sel # NoSel
       THEN IF ~PyIndexOk(Len(items), sel)
            THEN /\ Install(Mgr, "")
                 /\ tree' = tree
                 /\ last' = Done("delete_click", "IndexError", sel, None)
            ELSE IF confirm
                 THEN LET m == delete_item(save_state(Mgr), sel)
                      IN  /\ Install(m, "delete")
                          /\ tree' = load_items(m)
                          /\ last' = Done("delete_click", "deleted", sel, None)
                 ELSE /\ Install(save_state(Mgr), "")
                      /\ tree' = tree
                      /\ last' = Done("delete_click", "declined", sel, None)
       ELSE /\ Install(Mgr, "")
            /\ tree' = tree
            /\ last' = IF typed = None \/ typed = ""
                       THEN Done("delete_click", "cancelled", sel, typed)
                       ELSE IF FirstIndex(heap, items, typed) = -1
                            THEN Done("delete_click", "not_found", sel, typed)
                            ELSE Done("delete_click", "returned", sel, typed)

(***************************************************************************)
(* InventoryGUI.undo: the "Angre" button.                                  *)
(***************************************************************************)
UndoClick ==
    /\ Ready
    /\ ops' = ops + 1
    /\ LET m == undo(Mgr)
       IN  /\ Install(m, "")
           /\ tree' = load_items(m)
    /\ last' = IF history = <<>>
               THEN Done("undo", "nothing_to_undo", NoSel, None)
               ELSE [Done("undo", "restored", NoSel, None)
                        EXCEPT !.info = pushed[Len(pushed)].muts]
    /\ UNCHANGED <<forms, pc, rowRead, nrows, warnings>>

(***************************************************************************)
(* save_item: the Save button of the open item window number f, with the   *)
(* contents of its four entries.  An exception raised in a Tk callback     *)
(* ends the callback; the window stays open.                               *)
(***************************************************************************)
SaveForm(f, ean, amount, name, popular) ==
    /\ Ready
    /\ f \in 1..Len(forms)
    /\ ops' = ops + 1
    /\ UNCHANGED <<pc, rowRead, nrows, warnings>>
    /\ IF ean = "" \/ amount = <<>> \/ name = "" \/ popular = ""
       THEN /\ Install(Mgr, "")
            /\ UNCHANGED <<tree, forms>>
            /\ last' = Done("save_item", "incomplete", NoSel, ean)
       ELSE IF ~ParseInt(amount).ok
       THEN /\ Install(Mgr, "")
            /\ UNCHANGED <<tree, forms>>
            /\ last' = Done("save_item", "not_integer", NoSel, ean)
       ELSE LET new_item == InventoryItem(ean, ParseInt(amount).val, name, popular)
                m == IF forms[f].isNew
                     THEN add_item(Mgr, new_item)
                     ELSE update_item(Mgr, forms[f].index, new_item)
            IN  /\ Install(m, IF m.raised # "" THEN ""
                               ELSE IF forms[f].isNew THEN "add" ELSE "update")
                /\ IF m.raised # ""
                   THEN /\ UNCHANGED <<tree, forms>>
                        /\ last' = [Done("save_item", m.raised, forms[f].index, ean)
                                       EXCEPT !.info = <<forms[f].item>>]
                   ELSE /\ tree' = load_items(m)
                        /\ forms' = RemoveAt(forms, f)
                        /\ last' = IF forms[f].isNew
                                   THEN Done("save_item", "added", NoSel, ean)
                                   ELSE [Done("save_item", "updated", forms[f].index, ean)
                                            EXCEPT !.info = <<forms[f].item>>]

(***************************************************************************)
(* The item window is an ordinary Toplevel: the user may close it without  *)
(* pressing Save.                                                          *)
(***************************************************************************)
CloseForm(f) ==
    /\ Ready
    /\ f \in 1..Len(forms)
    /\ ops' = ops + 1
    /\ Install(Mgr, "")
    /\ forms' = RemoveAt(forms, f)
    /\ last' = Done("close_form", "closed", NoSel, None)
    /\ UNCHANGED <<tree, pc, rowRead, nrows, warnings>>


(***************************************************************************)
(* InventoryGUI.import_csv.  The file dialog and the header are one step,  *)
(* each row of the for loop is one step, and the save after the loop is    *)
(* one step; no other callback runs in between (pc).                       *)
(***************************************************************************)
Warning(kind, ean) == [kind |-> kind, ean |-> ean]

\* adjust_existing as it would be without the test for a negative sum
adjust_existing_unclamped(m, ref, ean, amount_int) ==
    [m |-> [m EXCEPT !.heap[ref].amount = m.heap[ref].amount + amount_int],
     warn |-> <<>>]

\* lines 303-308: the item found gets the sum, or 0 when the sum is negative
adjust_existing(m, ref, ean, amount_int) ==
    LET new_amount == m.heap[ref].amount + amount_int
    IN  IF new_amount < 0
        THEN [m |-> [m EXCEPT !.heap[ref].amount = 0],
              warn |-> <<Warning("negative_inventory", ean)>>]
        ELSE [m |-> [m EXCEPT !.heap[ref].amount = new_amount],
              warn |-> <<>>]

\* add_new as it would be without the test for a negative amount
add_new_unchecked(m, ean, amount_int, name) ==
    [m |-> [m EXCEPT !.heap = Append(m.heap, InventoryItem(ean, amount_int, name, "N")),
                     !.items = Append(m.items, Len(m.heap) + 1)],
     warn |-> <<>>]

\* lines 310-315: no item has the code
add_new(m, ean, amount_int, name) ==
    IF amount_int < 0
    THEN [m |-> m, warn |-> <<Warning("negative_new", ean)>>]
    ELSE [m |-> [m EXCEPT !.heap = Append(m.heap, InventoryItem(ean, amount_int, name, "N")),
                          !.items = Append(m.items, Len(m.heap) + 1)],
          warn |-> <<>>]

\* lines 289-315: one pass of the loop body.  int(None), for a row without
\* an amount field, raises TypeError, which the inner except does not catch.
import_row(m, row) ==
    LET ean == IF HasField(row, 1) THEN row[1] ELSE None
        name == IF HasField(row, 3) THEN row[3] ELSE None
    IN  IF ~HasField(row, 2)
        THEN [m |-> [m EXCEPT !.raised = "TypeError"], warn |-> <<>>]
        ELSE IF ~ParseInt(row[2]).ok
        THEN [m |-> m, warn |-> <<Warning("invalid_amount", ean)>>]
        ELSE LET amount_int == ParseInt(row[2]).val
                 index == FirstIndex(m.heap, m.items, ean)
             IN  IF index # -1
                 THEN adjust_existing(m, m.items[index + 1], ean, amount_int)
                 ELSE add_new(m, ean, amount_int, name)

\* header_ok as it would be if the columns were compared as a set
header_ok_any_order(header) ==
    {header[i] : i \in 1..Len(header)} = {GoodHeader[i] : i \in 1..Len(GoodHeader)}

\* line 284
header_ok(header) == header = GoodHeader

\* the file dialog is cancelled
ImportCancel ==
    /\ Ready
    /\ ops' = ops + 1
    /\ Install(Mgr, "")
    /\ last' = Done("import_csv", "cancelled", NoSel, None)
    /\ UNCHANGED <<tree, forms, pc, rowRead, nrows, warnings>>

\* open() or the reader raises (no such file, not UTF-8 text): line 322
ImportUnreadable ==
    /\ Ready
    /\ ops' = ops + 1
    /\ Install(Mgr, "")
    /\ last' = Done("import_csv", "error", NoSel, None)
    /\ UNCHANGED <<tree, forms, pc, rowRead, nrows, warnings>>

\* a file with the given header row is opened
ImportOpen(header) ==
    /\ Ready
    /\ ops' = ops + 1
    /\ Install(Mgr, "")
    /\ UNCHANGED <<tree, forms>>
    /\ IF header_ok(header)
       THEN /\ pc' = "import_rows"
            /\ rowRead' = <<>>
            /\ nrows' = 0
            /\ warnings' = <<>>
            /\ last' = [Done("import_csv", "reading", NoSel, None)
                           EXCEPT !.info = header]
       ELSE /\ UNCHANGED <<pc, rowRead, nrows, warnings>>
            /\ last' = [Done("import_csv", "invalid_header", NoSel, None)
                           EXCEPT !.info = header]

\* one pass of the loop, for the next row of the file
ImportRow(next_row) ==
    /\ pc = "import_rows"
    /\ nrows < MaxBatch
    /\ rowRead' = next_row
    /\ nrows' = nrows + 1
    /\ LET r == import_row([Mgr EXCEPT !.saves = saveCalls], next_row)
       IN  /\ Install(r.m, IF Len(r.m.items) > Len(items) THEN "import_append"
                            ELSE IF r.m.heap # heap THEN "import_adjust" ELSE "")
           /\ IF r.m.raised # ""
              THEN /\ pc' = "idle"
                   /\ warnings' = warnings
                   /\ last' = Done("import_csv", "error", NoSel, None)
              ELSE /\ pc' = pc
                   /\ warnings' = warnings \o r.warn
                   /\ last' = last
    /\ UNCHANGED <<tree, forms, ops>>

\* lines 318-320, once the reader is exhausted
ImportDone ==
    /\ pc = "import_rows"
    /\ LET m == save_inventory([Mgr EXCEPT !.saves = saveCalls])
       IN  /\ Install(m, "")
           /\ tree' = load_items(m)
    /\ pc' = "idle"
    /\ last' = Done("import_csv", "imported", NoSel, None)
    /\ rowRead' = <<>>
    /\ nrows' = 0
    /\ UNCHANGED <<forms, warnings, ops>>

(***************************************************************************)
(* The program: the callbacks the Tk main loop may run.                    *)
(***************************************************************************)
Selections == {NoSel} \cup (0..(tree - 1))

Next ==
    \/ AddClick
    \/ \E sel \in Selections, typed \in TypedEans : EditClick(sel, typed)
    \/ \E sel \in Selections, typed \in TypedEans, confirm \in BOOLEAN :
           DeleteClick(sel, typed, confirm)
    \/ UndoClick
    \/ \E f \in 1..Len(forms), e \in FormInputs : SaveForm(f, e[1], e[2], e[3], e[4])
    \/ \E f \in 1..Len(forms) : CloseForm(f)
    \/ ImportCancel
    \/ ImportUnreadable
    \/ \E header \in Headers : ImportOpen(header)
    \/ \E next_row \in Rows : ImportRow(next_row)
    \/ ImportDone

Spec == Init /\ [][Next]_vars


(***************************************************************************)
(* InventoryManager used directly, without the GUI: its public methods     *)
(* called with any item and any integer index.                             *)
(***************************************************************************)
MgrItems == {InventoryItem("a", 1, "w", "Y"), InventoryItem("b", 7, "v", "N")}

MgrIndices == (0 - 4)..4

\* calls made on one manager
MaxMgrOps == 5

MgrReady == pc = "idle" /\ ops < MaxMgrOps

MgrSaveState ==
    /\ MgrReady
    /\ ops' = ops + 1
    /\ Install(save_state(Mgr), "")
    /\ last' = Done("save_state", "pushed", NoSel, None)
    /\ UNCHANGED <<tree, forms, pc, rowRead, nrows, warnings>>

MgrUndo ==
    /\ MgrReady
    /\ ops' = ops + 1
    /\ Install(undo(Mgr), "")
    /\ last' = IF history = <<>>
               THEN Done("undo", "nothing_to_undo", NoSel, None)
               ELSE [Done("undo", "restored", NoSel, None)
                        EXCEPT !.info = pushed[Len(pushed)].muts]
    /\ UNCHANGED <<tree, forms, pc, rowRead, nrows, warnings>>

MgrAdd(item) ==
    /\ MgrReady
    /\ ops' = ops + 1
    /\ Install(add_item(Mgr, item), "add")
    /\ last' = Done("add_item", "added", NoSel, item.ean)
    /\ UNCHANGED <<tree, forms, pc, rowRead, nrows, warnings>>

MgrUpdate(index, item) ==
    /\ MgrReady
    /\ ops' = ops + 1
    /\ LET m == update_item(Mgr, index, item)
       IN  /\ Install(m, IF m.raised # "" THEN "" ELSE "update")
           /\ last' = Done("update_item", IF m.raised # "" THEN m.raised ELSE "updated",
                           index, item.ean)
    /\ UNCHANGED <<tree, forms, pc, rowRead, nrows, warnings>>

MgrDelete(index) ==
    /\ MgrReady
    /\ ops' = ops + 1
    /\ LET m == delete_item(Mgr, index)
       IN  /\ Install(m, IF m.raised # "" THEN "" ELSE "delete")
           /\ last' = Done("delete_item", IF m.raised # "" THEN m.raised ELSE "deleted",
                           index, None)
    /\ UNCHANGED <<tree, forms, pc, rowRead, nrows, warnings>>

NextManager ==
    \/ MgrSaveState
    \/ MgrUndo
    \/ \E item \in MgrItems : MgrAdd(item)
    \/ \E index \in MgrIndices, item \in MgrItems : MgrUpdate(index, item)
    \/ \E index \in MgrIndices : MgrDelete(index)

SpecManager == Init /\ [][NextManager]_vars


(***************************************************************************)
(* The inventory file as text.  Spec keeps file as the rows the csv module *)
(* hands over; here save_inventory and load_inventory are followed down to *)
(* the characters csv.DictWriter writes and csv.DictReader parses (excel   *)
(* dialect: delimiter ",", quote character QUOTE doubled inside a quoted   *)
(* field, lines ended by CR LF, QUOTE_MINIMAL).  A text is a sequence of   *)
(* one-character strings.                                                  *)
(***************************************************************************)
\* number of items of a collection saved and loaded again
MaxSaved == 2

QUOTE == "\""

CR == "\r"

LF == "\n"

FIELDNAMES == << <<"e", "a", "n">>, <<"a", "m", "o", "u", "n", "t">>,
                <<"n", "a", "m", "e">>, <<"p", "o", "p", "u", "l", "a", "r">> >>

\* QUOTE_MINIMAL: the characters that make the writer quote a field
NeedsQuotes(field) == \E i \in 1..Len(field) : field[i] \in {",", QUOTE, CR, LF}

RECURSIVE DoubleQuotes(_)
DoubleQuotes(field) ==
    IF field = <<>> THEN <<>>
    ELSE (IF Head(field) = QUOTE THEN <<QUOTE, QUOTE>> ELSE <<Head(field)>>)
             \o DoubleQuotes(Tail(field))

\* CsvEscape as it would be if quote characters were not doubled
CsvEscapePlain(field) ==
    IF NeedsQuotes(field) THEN <<QUOTE>> \o field \o <<QUOTE>> ELSE field

\* one field as csv.writer writes it
CsvEscape(field) ==
    IF NeedsQuotes(field) THEN <<QUOTE>> \o DoubleQuotes(field) \o <<QUOTE>> ELSE field

RECURSIVE CsvJoin(_)
CsvJoin(fields) ==
    IF Len(fields) = 1 THEN CsvEscape(fields[1])
    ELSE CsvEscape(Head(fields)) \o <<",">> \o CsvJoin(Tail(fields))

\* writer.writerow: the fields, comma separated, and the line terminator
CsvLine(fields) == CsvJoin(fields) \o <<CR, LF>>

RECURSIVE CsvLines(_)
CsvLines(rows) == IF rows = <<>> THEN <<>> ELSE CsvLine(Head(rows)) \o CsvLines(Tail(rows))

\* save_inventory: the header and one line per item; an int is written as
\* str() of it, None as the empty field
WriteText(h, refs) ==
    CsvLine(FIELDNAMES) \o
    CsvLines([i \in 1..Len(refs) |->
                  << IF h[refs[i]].ean = None THEN <<>> ELSE h[refs[i]].ean,
                     IntToText(h[refs[i]].amount),
                     IF h[refs[i]].name = None THEN <<>> ELSE h[refs[i]].name,
                     IF h[refs[i]].popular = None THEN <<>> ELSE h[refs[i]].popular >>])

\* csv.reader's state machine over the characters of the file: st is its
\* state, field and rec the field and the record being read, recs the
\* records read.  A line that is empty gives the record <<>>.
RECURSIVE CsvParse(_, _, _, _, _)
CsvParse(text, st, field, rec, recs) ==
    IF text = <<>>
    THEN IF st \in {"START_RECORD", "EAT_CRNL"} THEN recs
         ELSE Append(recs, Append(rec, field))
    ELSE LET c == Head(text)
             rest == Tail(text)
             eol == c \in {CR, LF}
         IN  CASE st = "EAT_CRNL" /\ eol -> CsvParse(rest, st, field, rec, recs)
               [] st = "START_RECORD" /\ eol ->
                      CsvParse(rest, "EAT_CRNL", <<>>, <<>>, Append(recs, <<>>))
               [] st \in {"START_RECORD", "EAT_CRNL", "START_FIELD"} /\ ~eol ->
                      IF c = QUOTE THEN CsvParse(rest, "IN_QUOTED_FIELD", <<>>, rec, recs)
                      ELSE IF c = ","
                      THEN CsvParse(rest, "START_FIELD", <<>>, Append(rec, <<>>), recs)
                      ELSE CsvParse(rest, "IN_FIELD", <<c>>, rec, recs)
               [] st \in {"START_FIELD", "IN_FIELD", "QUOTE_IN_QUOTED_FIELD"} /\ eol ->
                      CsvParse(rest, "EAT_CRNL", <<>>, <<>>,
                               Append(recs, Append(rec, field)))
               [] st = "IN_FIELD" /\ ~eol ->
                      IF c = ","
                      THEN CsvParse(rest, "START_FIELD", <<>>, Append(rec, field), recs)
                      ELSE CsvParse(rest, "IN_FIELD", Append(field, c), rec, recs)
               [] st = "IN_QUOTED_FIELD" ->
                      IF c = QUOTE
                      THEN CsvParse(rest, "QUOTE_IN_QUOTED_FIELD", field, rec, recs)
                      ELSE CsvParse(rest, "IN_QUOTED_FIELD", Append(field, c), rec, recs)
               [] st = "QUOTE_IN_QUOTED_FIELD" /\ ~eol ->
                      IF c = QUOTE
                      THEN CsvParse(rest, "IN_QUOTED_FIELD", Append(field, c), rec, recs)
                      ELSE IF c = ","
                      THEN CsvParse(rest, "START_FIELD", <<>>, Append(rec, field), recs)
                      ELSE CsvParse(rest, "IN_FIELD", Append(field, c), rec, recs)

\* the records of a text
CsvRecords(text) == CsvParse(text, "START_RECORD", <<>>, <<>>, <<>>)

\* csv.DictReader: row[name], by the position of name in the first record;
\* None when the row is shorter
DictField(fieldnames, rec, name) ==
    LET k == CHOOSE i \in 1..Len(fieldnames) : fieldnames[i] = name
    IN  IF k <= Len(rec) THEN rec[k] ELSE None

RECURSIVE DropEmpty(_)
DropEmpty(recs) ==
    IF recs = <<>> THEN <<>>
    ELSE (IF Head(recs) = <<>> THEN <<>> ELSE <<Head(recs)>>) \o DropEmpty(Tail(recs))

\* load_inventory: the first record names the fields, empty records are
\* skipped, every other record gives one InventoryItem
LoadText(text) ==
    LET recs == CsvRecords(text)
        fieldnames == Head(recs)
        data == DropEmpty(Tail(recs))
    IN  [i \in 1..Len(data) |->
            InventoryItem(DictField(fieldnames, data[i], FIELDNAMES[1]),
                          ParseInt(DictField(fieldnames, data[i], FIELDNAMES[2])).val,
                          DictField(fieldnames, data[i], FIELDNAMES[3]),
                          DictField(fieldnames, data[i], FIELDNAMES[4]))]

\* field texts of well-formed items: plain, with a comma and a quote, with
\* a quote and a line break
SavedTexts == { <<"a">>, <<"a", ",", QUOTE>>, <<QUOTE, LF, "b">> }

SavedAmounts == {0, 120}

SavedItems ==
    { InventoryItem(e, a, n, <<"Y">>) : e \in SavedTexts, a \in SavedAmounts,
                                        n \in SavedTexts }

SavedCollections == UNION {[1..n -> SavedItems] : n \in 0..MaxSaved}

\* a manager holding a well-formed collection, its file not yet rewritten
InitSaved ==
    \E c \in SavedCollections :
        /\ heap = c
        /\ items = [i \in 1..Len(c) |-> i]
        /\ file = CsvLine(FIELDNAMES)
        /\ history = <<>>
        /\ tree = 0
        /\ forms = <<>>
        /\ pc = "idle"
        /\ rowRead = <<>>
        /\ nrows = 0
        /\ warnings = <<>>
        /\ saveCalls = 0
        /\ ops = 0
        /\ last = Done("init", "loaded", NoSel, None)
        /\ pushed = <<>>
        /\ mutLog = <<>>

\* InventoryManager.save_inventory, down to the text
SaveText ==
    /\ Ready
    /\ ops' = ops + 1
    /\ file' = WriteText(heap, items)
    /\ saveCalls' = 1
    /\ last' = Done("save_inventory", "saved", NoSel, None)
    /\ UNCHANGED <<heap, items, history, tree, forms, pc, rowRead, nrows, warnings,
                   pushed, mutLog>>

\* InventoryManager.load_inventory of the existing file, down from the text
LoadFromText ==
    /\ Ready
    /\ ops' = ops + 1
    /\ heap' = heap \o LoadText(file)
    /\ items' = [i \in 1..Len(LoadText(file)) |-> Len(heap) + i]
    /\ saveCalls' = 0
    /\ last' = Done("load_inventory", "loaded", NoSel, None)
    /\ UNCHANGED <<file, history, tree, forms, pc, rowRead, nrows, warnings, pushed,
                   mutLog>>

NextRoundTrip == SaveText \/ LoadFromText

SpecRoundTrip == InitSaved /\ [][NextRoundTrip]_vars


(***************************************************************************)
(* Properties.                                                             *)
(***************************************************************************)
\* the collection manager.items denotes
ItemsVal == Deref(heap, items)

\* the step taken is a callback (or manager call) named op
Called(op) == ops' # ops /\ last'.op = op

\* the step taken is one pass of import_csv's loop, for the row rowRead'
RowStep == pc = "import_rows" /\ nrows' = nrows + 1

RowEan == rowRead'[1]

RowDelta == ParseInt(rowRead'[2])

RowValid == Len(rowRead') >= 2 /\ RowDelta.ok

\* C1: every item written to the persisted file has amount >= 0, after any
\* sequence of manual add, manual edit, delete, import_csv and undo.
C1_PersistedAmountsNonNegative ==
    \A i \in 1..Len(file) : ParseInt(file[i].amount).val >= 0

\* C2: a snapshot pushed by save_state stays, field by field and in order,
\* the collection as it was at the push whatever mutation follows (add,
\* update, delete, the in-place adjustments and appends of import_csv), and
\* undo makes manager.items equal to that collection.
C2_UndoRestoresPushedCollection ==
    [][ /\ Len(pushed') = Len(history')
        /\ \A i \in 1..Len(history') : Deref(heap', history'[i]) = pushed'[i].val
        /\ (Called("undo") /\ history # <<>>) => ItemsVal' = pushed[Len(pushed)].val
      ]_vars

\* C2 witness: an undo has restored a snapshot after exactly one mutation,
\* an in-place amount adjustment of import_csv, was made since the push.
C2_Witness ==
    /\ last.op = "undo"
    /\ last.res = "restored"
    /\ last.info = <<"import_adjust">>

\* C3: a delete by typed code fails only when no item has the code; when an
\* item has it the handler reaches the confirmation prompt, and on "yes"
\* the first item with the code is removed and the file rewritten.
C3_DeleteByCodeDeletes ==
    [][ (Called("delete_click") /\ last'.sel = NoSel /\ last'.ean \notin {None, ""})
        => LET index == FirstIndex(heap, items, last'.ean)
           IN  IF index = -1
               THEN last'.res = "not_found" /\ ItemsVal' = ItemsVal /\ file' = file
               ELSE /\ last'.res \in {"deleted", "declined"}
                    /\ last'.res = "deleted" =>
                          /\ ItemsVal' = RemoveAt(ItemsVal, index + 1)
                          /\ file' = WriteRows(heap', items')
                          /\ saveCalls' = 1
      ]_vars

\* C4: a row with a valid integer delta whose code matches an item changes
\* only the amount of the first matching item, to max(0, old + delta), with
\* a clamp warning exactly when old + delta < 0; name, popular and all
\* other items stay and no item is added.
C4_ImportAdjustsFirstMatch ==
    [][ (RowStep /\ RowValid /\ FirstIndex(heap, items, RowEan) # -1)
        => LET k == FirstIndex(heap, items, RowEan) + 1
               sum == ItemsVal[k].amount + RowDelta.val
           IN  /\ ItemsVal' = [ItemsVal EXCEPT ![k].amount = IF sum < 0 THEN 0 ELSE sum]
               /\ warnings' = IF sum < 0
                              THEN Append(warnings, Warning("negative_inventory", RowEan))
                              ELSE warnings
      ]_vars

\* C4 witness: inside an import, the first of two items with the same code
\* was clamped to 0 with a warning while the second kept its amount.
C4_Witness ==
    /\ pc = "import_rows"
    /\ warnings # <<>>
    /\ warnings[Len(warnings)] = Warning("negative_inventory", "a")
    /\ \E i, j \in 1..Len(items) :
          /\ i < j
          /\ ItemsVal[i] = InventoryItem("a", 0, "w", "Y")
          /\ ItemsVal[j] = InventoryItem("a", 3, "v", "N")

\* C5: a row with a valid integer delta whose code matches no item: for
\* delta < 0 the collection is unchanged and a rejected-negative-new-item
\* warning is recorded; for delta >= 0 (0 included) exactly one item is
\* appended with amount = delta, the row's name and popular = "N".
C5_ImportAppendsNewItem ==
    [][ (RowStep /\ RowValid /\ FirstIndex(heap, items, RowEan) = -1)
        => IF RowDelta.val < 0
           THEN /\ ItemsVal' = ItemsVal
                /\ warnings' = Append(warnings, Warning("negative_new", RowEan))
           ELSE /\ ItemsVal' = Append(ItemsVal,
                                      [ean |-> RowEan, amount |-> RowDelta.val,
                                       name |-> IF Len(rowRead') >= 3
                                                THEN rowRead'[3] ELSE None,
                                       popular |-> "N"])
                /\ warnings' = warnings
      ]_vars

\* C5 witness: inside an import without warnings so far, one item more than
\* the Treeview still shows has been appended for a row with delta 0.
C5_Witness ==
    /\ pc = "import_rows"
    /\ warnings = <<>>
    /\ Len(items) = tree + 1
    /\ ItemsVal[Len(items)] = InventoryItem("b", 0, "", "N")

\* C6: a row whose amount is not a valid integer (text, empty, or missing
\* because the row is short) is skipped with a warning, leaves the
\* collection unchanged, and the loop goes on with the next row.
C6_InvalidRowSkippedNotAborted ==
    [][ (RowStep /\ ~RowValid)
        => /\ ItemsVal' = ItemsVal
           /\ warnings' = Append(warnings, Warning("invalid_amount", RowEan))
           /\ pc' = "import_rows"
      ]_vars

\* C7: a file whose header is not the accepted three-column header is
\* rejected before any row is processed: manager.items, manager.history
\* and the persisted file are unchanged and save_inventory is not called.
C7_BadHeaderRejectsBatch ==
    [][ (Called("import_csv") /\ last'.info # <<>> /\ last'.info # GoodHeader)
        => /\ last'.res = "invalid_header"
           /\ pc' = "idle"
           /\ items' = items
           /\ ItemsVal' = ItemsVal
           /\ history' = history
           /\ \A i \in 1..Len(history) : Deref(heap', history'[i]) = Deref(heap, history[i])
           /\ file' = file
           /\ saveCalls' = 0
      ]_vars

\* C7 witness: a file with the header id, qty, label was offered to a
\* non-empty inventory and rejected.
C7_Witness ==
    /\ last.op = "import_csv"
    /\ last.res = "invalid_header"
    /\ last.info = <<"id", "qty", "label">>
    /\ items # <<>>

\* C8: update_item and delete_item with an index outside 0..len(items)-1,
\* negative ones included, signal IndexError and leave manager.items and
\* the persisted file unchanged.
C8_OutOfRangeIndexRaises ==
    [][ ((Called("update_item") \/ Called("delete_item"))
            /\ last'.sel \notin 0..(Len(items) - 1))
        => /\ last'.res = "IndexError"
           /\ items' = items
           /\ ItemsVal' = ItemsVal
           /\ file' = file
      ]_vars

\* C9: undo with an empty history reports nothing-to-undo and mutates
\* nothing: manager.items, manager.history and the file are unchanged and
\* save_inventory is not called.
C9_UndoOnEmptyHistory ==
    [][ (Called("undo") /\ history = <<>>)
        => /\ last'.res = "nothing_to_undo"
           /\ items' = items
           /\ ItemsVal' = ItemsVal
           /\ history' = history
           /\ file' = file
           /\ saveCalls' = 0
      ]_vars

\* C9 witness: undo was pressed on a non-empty inventory with no history.
C9_Witness ==
    /\ last.op = "undo"
    /\ last.res = "nothing_to_undo"
    /\ history = <<>>
    /\ items # <<>>

\* C10: every persisted item has all four fields (ean, amount, name,
\* popular) present and non-empty, after any sequence of manual add, manual
\* edit, delete, import_csv and undo from a well-formed store.
C10_PersistedFieldsNonEmpty ==
    \A i \in 1..Len(file) :
        /\ file[i].ean # ""
        /\ file[i].amount # <<>>
        /\ file[i].name # ""
        /\ file[i].popular # ""

\* C11: for a well-formed collection, save_inventory followed by
\* load_inventory gives a collection with the same number of items in the
\* same order, each with the same ean, amount, name and popular.
C11_SaveLoadRoundTrip ==
    [][(last.op = "save_inventory" /\ Called("load_inventory"))
           => /\ Len(items') = Len(items)
              /\ \A i \in 1..Len(items) :
                     /\ heap'[items'[i]].ean = heap[items[i]].ean
                     /\ heap'[items'[i]].amount = heap[items[i]].amount
                     /\ heap'[items'[i]].name = heap[items[i]].name
                     /\ heap'[items'[i]].popular = heap[items[i]].popular]_vars

\* two items with quotes, commas, a line break and a three-digit amount
\* have been saved and loaded again
C11_Witness ==
    /\ last.op = "load_inventory"
    /\ file = WriteText(heap, items)
    /\ Len(items) = 2
    /\ items[1] > 2
    /\ heap[items[1]].name = <<QUOTE, LF, "b">>
    /\ heap[items[1]].amount = 120
    /\ heap[items[2]].ean = <<"a", ",", QUOTE>>

\* C12: during one import_csv of a batch with the accepted header the file
\* is not written while entries are processed, and when the import returns
\* save_inventory has been called exactly once, after the last entry,
\* whatever the entries were.
C12_ImportSavesOnceAtEnd ==
    [][pc = "import_rows"
           => /\ pc' = "import_rows" => (file' = file /\ saveCalls' = 0)
              /\ pc' = "idle" => saveCalls' = 1]_vars

\* C13: the history is a last-in-first-out stack: each save_state makes it
\* one longer, each successful undo makes it one shorter and installs the
\* most recently pushed snapshot not yet popped, with the collection it
\* captured, as manager.items, leaving the snapshots below it in place, so
\* that undos restore the captured collections in reverse order of capture;
\* no other operation changes the history.
C13_HistoryIsStack ==
    [][/\ Called("save_state")
           => /\ Len(history') = Len(history) + 1
              /\ SubSeq(history', 1, Len(history)) = history
              /\ Deref(heap', history'[Len(history')]) = ItemsVal
       /\ (Called("undo") /\ history # <<>>)
           => /\ Len(history') = Len(history) - 1
              /\ history' = SubSeq(history, 1, Len(history) - 1)
              /\ items' = history[Len(history)]
              /\ Deref(heap', items') = pushed[Len(pushed)].val
              /\ \A k \in 1..Len(history') :
                     Deref(heap', history'[k]) = pushed[k].val
       /\ (ops' # ops /\ last'.op \notin {"save_state", "undo"})
           => /\ history' = history
              /\ \A k \in 1..Len(history) :
                     Deref(heap', history[k]) = Deref(heap, history[k])]_vars

\* two snapshots of different collections were pushed and two undos have
\* restored them, the later one first: the history is as before the pushes
C13_Witness ==
    /\ ops = 5
    /\ last.op = "undo"
    /\ last.res = "restored"
    /\ last.info = <<"delete">>
    /\ history = <<>>
    /\ pushed = <<>>
    /\ items = <<3, 4>>
    /\ Len(heap) = 5

\* the items at the positions in from..to are the same objects, with the
\* same fields, that stood shift positions further on before the step
SameItems(from, to, shift) ==
    \A i \in from..to : /\ items'[i] = items[i + shift]
                        /\ heap'[items'[i]] = heap[items[i + shift]]

\* the step ended with one call of save_inventory on the new collection
FileRewritten ==
    /\ saveCalls' = 1
    /\ file' = WriteRows(heap', items')
    /\ Len(file') = Len(items')

\* C14: for a position in 0..len(items)-1, add_item appends the item as the
\* last element and leaves every existing item at its position, update_item
\* replaces exactly the item at the position and delete_item removes exactly
\* the item at the position, keeping the others in order; each of the three
\* then rewrites the file from the resulting collection.
C14_ListOperationsFrame ==
    [][/\ Called("add_item")
           => /\ Len(items') = Len(items) + 1
              /\ SameItems(1, Len(items), 0)
              /\ heap'[items'[Len(items')]] \in MgrItems
              /\ heap'[items'[Len(items')]].ean = last'.ean
              /\ FileRewritten
       /\ (Called("update_item") /\ last'.sel \in 0..(Len(items) - 1))
           => /\ Len(items') = Len(items)
              /\ SameItems(1, last'.sel, 0)
              /\ SameItems(last'.sel + 2, Len(items), 0)
              /\ heap'[items'[last'.sel + 1]] \in MgrItems
              /\ heap'[items'[last'.sel + 1]].ean = last'.ean
              /\ FileRewritten
       /\ (Called("delete_item") /\ last'.sel \in 0..(Len(items) - 1))
           => /\ Len(items') = Len(items) - 1
              /\ SameItems(1, last'.sel, 0)
              /\ SameItems(last'.sel + 1, Len(items'), 1)
              /\ FileRewritten]_vars

\* the middle one of three items has been deleted
C14_Witness ==
    /\ last.op = "delete_item"
    /\ last.res = "deleted"
    /\ last.sel = 1
    /\ Len(items) = 2
    /\ heap[items[2]].ean = "b"
    /\ Len(file) = 2
    /\ file[2].ean = "b"

\* C15: when the most recent mutation has not been undone, pressing Undo
\* once restores manager.items to the collection as it was immediately
\* before that mutation.
C15_UndoRevertsLastMutation ==
    [][(Called("undo") /\ mutLog # <<>>)
           => ItemsVal' = mutLog[1].val]_vars

\* C16: when an edit form is saved, whatever callbacks ran since it was
\* opened, no IndexError occurs and the item replaced is the item whose
\* fields pre-filled the form (the same object, or the copy of it that an
\* undo put in its place).
C16_FormSaveReplacesPrefilledItem ==
    [][(Called("save_item") /\ last'.info # <<>>)
           => /\ last'.res = "updated"
              /\ \/ items[last'.sel + 1] = last'.info[1]
                 \/ heap[items[last'.sel + 1]] = heap[last'.info[1]]]_vars

\* C17: whenever no operation is in progress, the rows of the persisted
\* file are the items of manager.items, in the same order.
C17_FileMatchesItemsWhenIdle ==
    pc = "idle" => /\ Len(file) = Len(items)
                   /\ LoadItems(file) = ItemsVal

=============================================================================
